---------------------------- MODULE Spec2Model ----------------------------
(***************************************************************************)
(* The retryable-ticket precompile (ArbRetryableTx) and the L1 fee         *)
(* aggregation precompile (ArbAggregator) of precompiles/ArbAggregator.go. *)
(*                                                                         *)
(* Every public method is a pure operator from a call context (the Go      *)
(* `ctx` plus the evm time and the state it reads) to the context the      *)
(* method leaves behind: remaining gas, the store as the method left it,   *)
(* the events it emitted, its error and its return value.  A method is a   *)
(* composition of steps, one per block of statements of the Go code; a    *)
(* step does nothing once an earlier step has returned.                    *)
(*                                                                         *)
(* The ticket store, the burn primitive, the event-cost functions and the  *)
(* call frame that reverts a failed call are collaborators whose code is   *)
(* not part of the file; they are modelled from the specification.         *)
(***************************************************************************)
EXTENDS Integers, Sequences, FiniteSets, TLC

\* ------------------------------------------------------------------ bounds

\* Redeem is called on a ticket at most this many times.
MaxTries == 2
\* The last block's time is RetryableLifetimeSeconds + MaxDrift.
MaxDrift == 1

\* -------------------------------------------------------------- constants

\* go-ethereum params.SloadGas and params.SstoreSetGas.
SloadGas == 50
SstoreSetGas == 20000
\* retryables.RetryableLifetimeSeconds: one week.
RetryableLifetimeSeconds == 604800

\* uint64 arithmetic wraps; the model keeps 30 bits of it (TLC's integers
\* are 32 bits wide), far above every time the clock of Spec reaches.
U64Mod == 2^30

Addrs == {"a1", "a2"}
TicketIds == {"t1", "t2"}

\* A ticket id is derived from the submission that created the ticket, so an
\* id fixes the beneficiary and the payload of its ticket.
BeneficiaryOf(id) == IF id = "t1" THEN "a1" ELSE "a2"
PayloadSize(id) == IF id = "t1" THEN 100 ELSE 33

\* ----------------------------------------------------------------- errors

Nil == "nil"
NotFoundError == "ticketId not found"
NotBeneficiaryError == "only the beneficiary may cancel a retryable"
ErrOutOfGas == "out of gas"
StoreError == "store failure"
NilDereference == "nil pointer dereference"

\* A missing ticket, and a method's zero or nil return value.
Absent == [absent |-> TRUE]
NoValue == <<>>

VARIABLES
    now,        \* evm.Context.Time
    tickets,    \* the ticket store: id -> ticket record or Absent
    scheduled,  \* redeemTxIds the scheduler received in redeem-scheduled events
    canceled,   \* ticket ids of the canceled events that took effect
    l1,         \* the L1 pricing state: the fee aggregation registry
    last        \* the context the most recent call of the current block left

vars == <<now, tickets, scheduled, canceled, l1, last>>

\* ------------------------------------------------------------ arithmetic

AddU64(a, b) == (a + b) % U64Mod

\* int64(x) of a uint64 x, as big.NewInt(int64(timeout)) converts it.
Int64(x) == IF x >= U64Mod \div 2 THEN x - U64Mod ELSE x

\* util.WordsForBytes
WordsForBytes(nbytes) == (nbytes + 31) \div 32

\* The gas an event costs: LogGas, LogTopicGas per topic (the signature and
\* each indexed field), LogDataGas per byte of the other fields.
EventGasCost(indexed, dataBytes) == 375 + 375 * (1 + indexed) + 8 * dataBytes

LifetimeExtendedGasCost(ticketId, newTimeout) == EventGasCost(1, 32)
RedeemScheduledGasCost(ticketId, retryTxHash, sequenceNum, donatedGas, gasDonor) ==
    EventGasCost(3, 64)
CanceledGasCost(ticketId) == EventGasCost(1, 0)

\* retryables.TxIdForRedeemAttempt: a collision-free function of its inputs.
TxIdForRedeemAttempt(ticketId, sequenceNum) == <<ticketId, sequenceNum>>

\* ------------------------------------------------------- the ticket store

\* Whether open finds the ticket: it exists and its timeout has not passed.
Present(store, id, time) ==
    /\ store[id] # Absent
    /\ store[id].timeout >= time

\* retryableState.RetryableSizeBytes
RetryableSizeBytes(store, id, time) ==
    IF Present(store, id, time) THEN store[id].size ELSE 0

\* retryableState.DeleteRetryable
DeleteRetryable(store, id) == [store EXCEPT ![id] = Absent]

\* retryableState.Keepalive: renew sets the timeout to newTimeout.
RenewRetryable(store, id, newTimeout) == [store EXCEPT ![id].timeout = newTimeout]

\* retryable.IncrementNumTries
IncrementNumTries(store, id) == [store EXCEPT ![id].numTries = @ + 1]

\* ------------------------------------------------------- the call context

\* The context a call starts from.  `fail` names the store access that
\* reports a failure in this call ("none": no access fails).
Ctx(op, caller, id, gas, time, store, fail) ==
    [op |-> op, caller |-> caller, id |-> id, gas |-> gas, time |-> time,
     pre |-> store, fail |-> fail,
     gasLeft |-> gas, store |-> store, events |-> <<>>, trace |-> <<>>,
     done |-> FALSE, err |-> Nil, ret |-> NoValue, val |-> 0]

Return(c, err, ret) == [c EXCEPT !.done = TRUE, !.err = err, !.ret = ret]

Note(c, what) == [c EXCEPT !.trace = Append(@, what)]

\* c.burn: fails when the gas left is below the amount.
Burn(c, amount) ==
    IF c.gasLeft < amount
    THEN Note(c, <<"burnfail", amount>>)
    ELSE Note([c EXCEPT !.gasLeft = @ - amount], <<"burn", amount>>)

BurnFailed(c) == c.trace # <<>> /\ c.trace[Len(c.trace)][1] = "burnfail"

\* An event handed to the evm's log.
Emit(c, ev) == Note([c EXCEPT !.events = Append(@, ev)], <<"emit", ev[1]>>)

\* Whether the store access `what` reports a failure in this call.
Fails(c, what) == c.fail = what

\* ------------------------------------------------------------------ Cancel

CancelOpen(c) ==
    IF c.done THEN c
    ELSE IF Fails(c, "open") THEN Return(Note(c, <<"fail", "open">>), StoreError, NoValue)
    ELSE IF ~Present(c.store, c.id, c.time) THEN Return(c, NotFoundError, NoValue)
    ELSE Note(c, <<"read", "open">>)

\* The check that lets every caller pass.
CancelAuthorized_anyCaller(caller, beneficiary) == TRUE

CancelAuthorized(caller, beneficiary) == caller = beneficiary

CancelCheckBeneficiary(c) ==
    IF c.done THEN c
    ELSE IF Fails(c, "beneficiary")
    THEN Return(Note(c, <<"fail", "beneficiary">>), StoreError, NoValue)
    ELSE IF ~CancelAuthorized(c.caller, c.store[c.id].beneficiary)
    THEN Return(c, NotBeneficiaryError, NoValue)
    ELSE Note(c, <<"read", "beneficiary">>)

\* The event and the return without the delete.
CancelDelete_noDelete(c) ==
    IF c.done THEN c
    ELSE Return(Emit(c, <<"Canceled", c.id>>), Nil, NoValue)

\* The delete, the event and the return of the delete's error.
CancelDelete(c) ==
    IF c.done THEN c
    ELSE IF Fails(c, "delete")
    THEN Return(Emit(Note(c, <<"fail", "delete">>), <<"Canceled", c.id>>),
                StoreError, NoValue)
    ELSE Return(Emit(Note([c EXCEPT !.store = DeleteRetryable(@, c.id)],
                          <<"write", "delete">>),
                     <<"Canceled", c.id>>),
                Nil, NoValue)

Cancel(c) == CancelDelete(CancelCheckBeneficiary(CancelOpen(c)))

\* ---------------------------------------------------------- GetBeneficiary

GetBeneficiaryCharge(c) ==
    LET b == Burn(c, 2 * SloadGas)
    IN  IF BurnFailed(b) THEN Return(b, ErrOutOfGas, NoValue) ELSE b

GetBeneficiaryOpen(c) ==
    IF c.done THEN c
    ELSE IF Fails(c, "open") THEN Return(Note(c, <<"fail", "open">>), StoreError, NoValue)
    ELSE IF ~Present(c.store, c.id, c.time) THEN Return(c, NotFoundError, NoValue)
    ELSE Note(c, <<"read", "open">>)

GetBeneficiaryRead(c) ==
    IF c.done THEN c
    ELSE IF Fails(c, "beneficiary")
    THEN Return(Note(c, <<"fail", "beneficiary">>), StoreError, NoValue)
    ELSE Return(Note(c, <<"read", "beneficiary">>), Nil, <<c.store[c.id].beneficiary>>)

GetBeneficiary(c) == GetBeneficiaryRead(GetBeneficiaryOpen(GetBeneficiaryCharge(c)))

\* ------------------------------------------------------------- GetLifetime

GetLifetime(c) == Return(c, Nil, <<RetryableLifetimeSeconds>>)

\* -------------------------------------------------------------- GetTimeout

\* The open charged as GetBeneficiary charges its own.
GetTimeoutOpen_charged(c) ==
    LET b == Burn(c, 2 * SloadGas)
    IN  IF c.done THEN c
        ELSE IF BurnFailed(b) THEN Return(b, ErrOutOfGas, NoValue)
        ELSE IF Fails(c, "open") THEN Return(Note(b, <<"fail", "open">>), StoreError, NoValue)
        ELSE IF ~Present(c.store, c.id, c.time) THEN Return(b, NotFoundError, NoValue)
        ELSE Note(b, <<"read", "open">>)

\* The open that finds a ticket whatever its timeout.
GetTimeoutOpen_noExpiry(c) ==
    IF c.done THEN c
    ELSE IF Fails(c, "open") THEN Return(Note(c, <<"fail", "open">>), StoreError, NoValue)
    ELSE IF c.store[c.id] = Absent THEN Return(c, NotFoundError, NoValue)
    ELSE Note(c, <<"read", "open">>)

GetTimeoutOpen(c) ==
    IF c.done THEN c
    ELSE IF Fails(c, "open") THEN Return(Note(c, <<"fail", "open">>), StoreError, NoValue)
    ELSE IF ~Present(c.store, c.id, c.time) THEN Return(c, NotFoundError, NoValue)
    ELSE Note(c, <<"read", "open">>)

GetTimeoutRead(c) ==
    IF c.done THEN c
    ELSE IF Fails(c, "timeout")
    THEN Return(Note(c, <<"fail", "timeout">>), StoreError, NoValue)
    ELSE Return(Note(c, <<"read", "timeout">>), Nil, <<Int64(c.store[c.id].timeout)>>)

GetTimeout(c) == GetTimeoutRead(GetTimeoutOpen(c))

\* --------------------------------------------------------------- Keepalive

\* The check and the event are charged first.
KeepaliveChargeFixed(c) ==
    LET eventCost == LifetimeExtendedGasCost(c.id, 0)
        b == Burn(c, 6 * SloadGas + 2 * SstoreSetGas + eventCost)
    IN  IF BurnFailed(b) THEN Return(b, ErrOutOfGas, <<0>>) ELSE b

\* The division before the multiplication.
KeepaliveUpdateCost_divideFirst(nbytes) == (WordsForBytes(nbytes) \div 100) * SstoreSetGas

KeepaliveUpdateCost(nbytes) == (WordsForBytes(nbytes) * SstoreSetGas) \div 100

\* The charge without the check of a size of zero.
KeepaliveChargeSize_noZeroCheck(c) ==
    IF c.done THEN c
    ELSE IF Fails(c, "size") THEN Return(Note(c, <<"fail", "size">>), StoreError, NoValue)
    ELSE LET nbytes == RetryableSizeBytes(c.store, c.id, c.time)
             b == Burn(Note(c, <<"read", "size">>), KeepaliveUpdateCost(nbytes))
         IN  IF BurnFailed(b) THEN Return(b, ErrOutOfGas, <<0>>) ELSE b

\* The charge whose error is not looked at.
KeepaliveChargeSize_ignoreBurnError(c) ==
    IF c.done THEN c
    ELSE IF Fails(c, "size") THEN Return(Note(c, <<"fail", "size">>), StoreError, NoValue)
    ELSE LET nbytes == RetryableSizeBytes(c.store, c.id, c.time)
             r == Note(c, <<"read", "size">>)
         IN  IF nbytes = 0 THEN Return(r, NotFoundError, NoValue)
             ELSE Burn(r, KeepaliveUpdateCost(nbytes))

\* The expiry update is charged once the size is known.
KeepaliveChargeSize(c) ==
    IF c.done THEN c
    ELSE IF Fails(c, "size") THEN Return(Note(c, <<"fail", "size">>), StoreError, NoValue)
    ELSE LET nbytes == RetryableSizeBytes(c.store, c.id, c.time)
             r == Note(c, <<"read", "size">>)
             b == Burn(r, KeepaliveUpdateCost(nbytes))
         IN  IF nbytes = 0 THEN Return(r, NotFoundError, NoValue)
             ELSE IF BurnFailed(b) THEN Return(b, ErrOutOfGas, <<0>>)
             ELSE b

\* The window without the current time.
KeepaliveWindow_lifetimeOnly(currentTime) == RetryableLifetimeSeconds

KeepaliveWindow(currentTime) == AddU64(currentTime, RetryableLifetimeSeconds)

\* The renew that only the beneficiary may ask for.
KeepaliveRenew_beneficiaryOnly(c) ==
    IF c.done THEN c
    ELSE IF c.caller # c.store[c.id].beneficiary
    THEN Return(c, NotBeneficiaryError, <<0>>)
    ELSE IF Fails(c, "renew") \/ ~Present(c.store, c.id, c.time)
    THEN Return(Note(c, <<"fail", "renew">>), StoreError, <<0>>)
    ELSE Note([c EXCEPT !.store = RenewRetryable(@, c.id, KeepaliveWindow(c.time))],
              <<"write", "renew">>)

KeepaliveRenew(c) ==
    IF c.done THEN c
    ELSE IF Fails(c, "renew") \/ ~Present(c.store, c.id, c.time)
    THEN Return(Note(c, <<"fail", "renew">>), StoreError, <<0>>)
    ELSE Note([c EXCEPT !.store = RenewRetryable(@, c.id, KeepaliveWindow(c.time))],
              <<"write", "renew">>)

\* The read-back of the timeout of a ticket whatever the timeout is.
KeepaliveReadBack_noExpiry(c) ==
    IF c.done THEN c
    ELSE IF Fails(c, "open") THEN Return(Note(c, <<"fail", "open">>), StoreError, NoValue)
    ELSE IF Fails(c, "timeout")
    THEN Return(Note(c, <<"fail", "timeout">>), StoreError, NoValue)
    ELSE [Note(Note(c, <<"read", "open">>), <<"read", "timeout">>)
            EXCEPT !.val = c.store[c.id].timeout]

\* The ticket is opened again and its timeout read back; the result of the
\* open is used without a nil check.
KeepaliveReadBack(c) ==
    IF c.done THEN c
    ELSE IF Fails(c, "open") THEN Return(Note(c, <<"fail", "open">>), StoreError, NoValue)
    ELSE IF ~Present(c.store, c.id, c.time)
    THEN Return(Note(c, <<"read", "open">>), NilDereference, NoValue)
    ELSE IF Fails(c, "timeout")
    THEN Return(Note(c, <<"fail", "timeout">>), StoreError, NoValue)
    ELSE [Note(Note(c, <<"read", "open">>), <<"read", "timeout">>)
            EXCEPT !.val = c.store[c.id].timeout]

KeepaliveEmit(c) ==
    IF c.done THEN c
    ELSE Return(Emit(c, <<"LifetimeExtended", c.id, Int64(c.val)>>), Nil, <<Int64(c.val)>>)

Keepalive(c) ==
    KeepaliveEmit(KeepaliveReadBack(KeepaliveRenew(
        KeepaliveChargeSize(KeepaliveChargeFixed(c)))))

\* ------------------------------------------------------------------ Redeem

RedeemChargeFixed(c) ==
    LET eventCost == RedeemScheduledGasCost(c.id, c.id, 0, 0, c.caller)
        b == Burn(c, 5 * SloadGas + SstoreSetGas + eventCost)
    IN  IF BurnFailed(b) THEN Return(b, ErrOutOfGas, NoValue) ELSE b

RedeemChargeSize(c) ==
    IF c.done THEN c
    ELSE IF Fails(c, "size") THEN Return(Note(c, <<"fail", "size">>), StoreError, NoValue)
    ELSE LET byteCount == RetryableSizeBytes(c.store, c.id, c.time)
             writeBytes == WordsForBytes(byteCount)
             b == Burn(Note(c, <<"read", "size">>), SloadGas * writeBytes)
         IN  IF BurnFailed(b) THEN Return(b, ErrOutOfGas, NoValue) ELSE b

\* The absent ticket answered with the nil error of the open.
RedeemOpen_nilError(c) ==
    IF c.done THEN c
    ELSE IF Fails(c, "open") THEN Return(Note(c, <<"fail", "open">>), StoreError, NoValue)
    ELSE IF ~Present(c.store, c.id, c.time) THEN Return(c, Nil, NoValue)
    ELSE Note(c, <<"read", "open">>)

RedeemOpen(c) ==
    IF c.done THEN c
    ELSE IF Fails(c, "open") THEN Return(Note(c, <<"fail", "open">>), StoreError, NoValue)
    ELSE IF ~Present(c.store, c.id, c.time) THEN Return(c, NotFoundError, NoValue)
    ELSE Note(c, <<"read", "open">>)

\* sequenceNum taken from the count before the increment.
RedeemIncrement_staleCount(c) ==
    IF c.done THEN c
    ELSE IF Fails(c, "incr") THEN Return(Note(c, <<"fail", "incr">>), StoreError, NoValue)
    ELSE [Note(c, <<"write", "incr">>) EXCEPT !.store = IncrementNumTries(@, c.id),
                                             !.val = c.store[c.id].numTries]

\* sequenceNum is the count IncrementNumTries returns.
RedeemIncrement(c) ==
    IF c.done THEN c
    ELSE IF Fails(c, "incr") THEN Return(Note(c, <<"fail", "incr">>), StoreError, NoValue)
    ELSE LET s == IncrementNumTries(c.store, c.id)
         IN  [Note(c, <<"write", "incr">>) EXCEPT !.store = s, !.val = s[c.id].numTries]

\* The event carrying the gas the call started with.
RedeemSchedule_initialGas(c) ==
    IF c.done THEN c
    ELSE LET redeemTxId == TxIdForRedeemAttempt(c.id, c.val)
         IN  [Emit(c, <<"RedeemScheduled", c.id, redeemTxId, c.val, c.gas, c.caller>>)
                EXCEPT !.ret = <<redeemTxId>>]

\* The redeemTxId derived without the sequence number.
RedeemSchedule_sameTxId(c) ==
    IF c.done THEN c
    ELSE LET redeemTxId == TxIdForRedeemAttempt(c.id, 0)
         IN  [Emit(c, <<"RedeemScheduled", c.id, redeemTxId, c.val, c.gasLeft, c.caller>>)
                EXCEPT !.ret = <<redeemTxId>>]

\* The event carries the gas left at this point.
RedeemSchedule(c) ==
    IF c.done THEN c
    ELSE LET redeemTxId == TxIdForRedeemAttempt(c.id, c.val)
         IN  [Emit(c, <<"RedeemScheduled", c.id, redeemTxId, c.val, c.gasLeft, c.caller>>)
                EXCEPT !.ret = <<redeemTxId>>]

\* The donation of one unit more than the gas that is left.
RedeemDonate_oneMore(c) ==
    IF c.done THEN c
    ELSE LET b == Burn(c, c.gasLeft + 1)
         IN  IF BurnFailed(b) THEN Return(b, ErrOutOfGas, NoValue)
             ELSE Return(b, Nil, c.ret)

\* All of the remaining gas is donated to the retry.
RedeemDonate(c) ==
    IF c.done THEN c
    ELSE LET b == Burn(c, c.gasLeft)
         IN  IF BurnFailed(b) THEN Return(b, ErrOutOfGas, NoValue)
             ELSE Return(b, Nil, c.ret)

Redeem(c) ==
    RedeemDonate(RedeemSchedule(RedeemIncrement(
        RedeemOpen(RedeemChargeSize(RedeemChargeFixed(c))))))

\* ----------------------------------------------------------- ArbAggregator

\* The accounts that call the registry, and the aggregators and the fee the
\* calls name.
Accounts == {"a1", "a2", "a3"}
Aggregators == {"a1", "a2"}
NoAggregator == "none"
Fees == {7}

\* The registry before any write: an aggregator collects its own fees, no
\* sender has a preferred aggregator, no aggregator has a fixed charge.
L1Init ==
    [collector |-> [a \in Aggregators |-> a],
     default |-> "a1",
     preferred |-> [a \in Accounts |-> NoAggregator],
     fixedCharge |-> [a \in Aggregators |-> 0]]

\* The context a registry call starts from; `fail` as for a ticket call.
AggCtx(op, caller, aggregator, arg, reg, fail) ==
    [op |-> op, caller |-> caller, aggregator |-> aggregator, arg |-> arg,
     pre |-> reg, fail |-> fail, l1 |-> reg, done |-> FALSE, err |-> Nil,
     ret |-> NoValue]

GetFeeCollector(c) == Return(c, Nil, <<c.l1.collector[c.aggregator]>>)

GetDefaultAggregator(c) == Return(c, Nil, <<c.l1.default>>)

\* The sender's preferred aggregator, or the default one and false.
GetPreferredAggregator(c) ==
    IF c.l1.preferred[c.aggregator] = NoAggregator
    THEN Return(c, Nil, <<c.l1.default, FALSE>>)
    ELSE Return(c, Nil, <<c.l1.preferred[c.aggregator], TRUE>>)

GetTxBaseFee(c) == Return(c, Nil, <<c.l1.fixedCharge[c.aggregator]>>)

SetFeeCollectorRead(c) ==
    IF Fails(c, "collector") THEN Return(c, StoreError, NoValue) ELSE c

\* The check with "or" for "and": it refuses whoever is not both.
SetFeeCollectorAuthorized_both(caller, aggregator, collector) ==
    ~((caller # aggregator) \/ (caller # collector))

\* Only the aggregator and its current fee collector pass.
SetFeeCollectorAuthorized(caller, aggregator, collector) ==
    ~((caller # aggregator) /\ (caller # collector))

NotAuthorizedError == "non-authorized c.caller in ArbAggregator.SetFeeCollector"

SetFeeCollectorCheck(c) ==
    IF c.done THEN c
    ELSE IF ~SetFeeCollectorAuthorized(c.caller, c.aggregator, c.l1.collector[c.aggregator])
    THEN Return(c, NotAuthorizedError, NoValue)
    ELSE c

SetFeeCollectorWrite(c) ==
    IF c.done THEN c
    ELSE IF Fails(c, "set") THEN Return(c, StoreError, NoValue)
    ELSE Return([c EXCEPT !.l1.collector[c.aggregator] = c.arg], Nil, NoValue)

SetFeeCollector(c) == SetFeeCollectorWrite(SetFeeCollectorCheck(SetFeeCollectorRead(c)))

SetDefaultAggregator(c) == Return([c EXCEPT !.l1.default = c.arg], Nil, NoValue)

\* The two arguments of the store's setter in the other order.
SetPreferredAggregator_swapped(c) ==
    Return([c EXCEPT !.l1.preferred[c.arg] = c.caller], Nil, NoValue)

\* The entry written is the caller's.
SetPreferredAggregator(c) ==
    Return([c EXCEPT !.l1.preferred[c.caller] = c.arg], Nil, NoValue)

SetTxBaseFee(c) ==
    Return([c EXCEPT !.l1.fixedCharge[c.aggregator] = c.arg], Nil, NoValue)

\* ---------------------------------------------------------- the call frame

\* What a call leaves for its caller to see.
Observe(c) ==
    [op |-> c.op, caller |-> c.caller, id |-> c.id, gas |-> c.gas, time |-> c.time,
     pre |-> c.pre, gasLeft |-> c.gasLeft, store |-> c.store, events |-> c.events,
     trace |-> c.trace, err |-> c.err, ret |-> c.ret]

Idle == [op |-> "none"]

\* The redeemTxIds of the redeem-scheduled events of a call.
ScheduledBy(c) ==
    {c.events[i][3] : i \in {j \in DOMAIN c.events : c.events[j][1] = "RedeemScheduled"}}

\* The ticket ids of the canceled events of a call.
CanceledBy(c) ==
    {c.events[i][2] : i \in {j \in DOMAIN c.events : c.events[j][1] = "Canceled"}}

\* The enclosing call frame keeps what a call did when the call returns no
\* error and reverts it otherwise.
Commit(c) ==
    /\ tickets' = IF c.err = Nil THEN c.store ELSE tickets
    /\ scheduled' = IF c.err = Nil THEN scheduled \cup ScheduledBy(c) ELSE scheduled
    /\ canceled' = IF c.err = Nil THEN canceled \cup CanceledBy(c) ELSE canceled
    /\ last' = Observe(c)
    /\ UNCHANGED <<now, l1>>

\* The gas a caller gives a call and the store access that fails in it.  Gas
\* is none, too little for the size-proportional charge, or ample; a store
\* access fails only in a call with ample gas.
RedeemFixedCost == 5 * SloadGas + SstoreSetGas + EventGasCost(3, 64)
KeepaliveFixedCost == 6 * SloadGas + 2 * SstoreSetGas + EventGasCost(1, 32)
AmpleGas == KeepaliveFixedCost + 1000

Inputs(gases, fails) ==
    {<<g, "none">> : g \in gases} \cup {<<AmpleGas, f>> : f \in fails}

\* The times of the blocks: the start, one lifetime later, and shortly after.
BlockTimes == {0} \cup {RetryableLifetimeSeconds + k : k \in 0..MaxDrift}

\* A ticket as its creation at `time` leaves it.
NewRetryable(id, time) ==
    [beneficiary |-> BeneficiaryOf(id), size |-> PayloadSize(id),
     numTries |-> 0, timeout |-> AddU64(time, RetryableLifetimeSeconds)]

\* ----------------------------------------------------------------- actions

\* The store is populated: t1 was created at time 0, t2 was or never existed.
Init ==
    /\ now = 0
    /\ \E ids \in {{"t1"}, TicketIds} :
          tickets = [id \in TicketIds |->
                        IF id \in ids THEN NewRetryable(id, 0) ELSE Absent]
    /\ scheduled = {}
    /\ canceled = {}
    /\ l1 = L1Init
    /\ last = Idle

\* The next block's time.
AdvanceTime(t) ==
    /\ t > now
    /\ now' = t
    /\ last' = Idle
    /\ UNCHANGED <<tickets, scheduled, canceled, l1>>

CallCancel ==
    \E caller \in Addrs, id \in TicketIds,
       in \in Inputs({0, AmpleGas}, {"open", "beneficiary", "delete"}) :
        Commit(Cancel(Ctx("Cancel", caller, id, in[1], now, tickets, in[2])))

CallGetBeneficiary ==
    \E caller \in Addrs, id \in TicketIds,
       in \in Inputs({0, 2 * SloadGas}, {"open", "beneficiary"}) :
        Commit(GetBeneficiary(
            Ctx("GetBeneficiary", caller, id, in[1], now, tickets, in[2])))

CallGetLifetime ==
    \E caller \in Addrs, gas \in {0, AmpleGas} :
        Commit(GetLifetime(Ctx("GetLifetime", caller, "t1", gas, now, tickets, "none")))

CallGetTimeout ==
    \E caller \in Addrs, id \in TicketIds,
       in \in Inputs({0, AmpleGas}, {"open", "timeout"}) :
        Commit(GetTimeout(Ctx("GetTimeout", caller, id, in[1], now, tickets, in[2])))

CallKeepalive ==
    \E caller \in Addrs, id \in TicketIds,
       in \in Inputs({0, KeepaliveFixedCost + SloadGas, AmpleGas},
                     {"size", "renew", "open", "timeout"}) :
        Commit(Keepalive(Ctx("Keepalive", caller, id, in[1], now, tickets, in[2])))

CallRedeem ==
    \E caller \in Addrs, id \in TicketIds,
       in \in Inputs({0, RedeemFixedCost + SloadGas, AmpleGas},
                     {"size", "open", "incr"}) :
        /\ tickets[id] # Absent => tickets[id].numTries < MaxTries
        /\ Commit(Redeem(Ctx("Redeem", caller, id, in[1], now, tickets, in[2])))

\* What a registry call leaves for its caller to see.
ObserveAgg(c) ==
    [op |-> c.op, caller |-> c.caller, aggregator |-> c.aggregator, arg |-> c.arg,
     pre |-> c.pre, l1 |-> c.l1, err |-> c.err, ret |-> c.ret]

CommitAgg(c) ==
    /\ l1' = IF c.err = Nil THEN c.l1 ELSE l1
    /\ last' = ObserveAgg(c)
    /\ UNCHANGED <<now, tickets, scheduled, canceled>>

\* A query reads nothing of its caller: one account calls them.  A store
\* access fails only in a call of the aggregator itself.
CallGetFeeCollector ==
    \E aggregator \in Aggregators :
        CommitAgg(GetFeeCollector(
            AggCtx("GetFeeCollector", "a3", aggregator, NoAggregator, l1, "none")))

CallGetDefaultAggregator ==
    CommitAgg(GetDefaultAggregator(
        AggCtx("GetDefaultAggregator", "a3", NoAggregator, NoAggregator, l1, "none")))

CallGetPreferredAggregator ==
    \E address \in Accounts :
        CommitAgg(GetPreferredAggregator(
            AggCtx("GetPreferredAggregator", "a3", address, NoAggregator, l1, "none")))

CallGetTxBaseFee ==
    \E aggregator \in Aggregators :
        CommitAgg(GetTxBaseFee(
            AggCtx("GetTxBaseFee", "a3", aggregator, NoAggregator, l1, "none")))

CallSetFeeCollector ==
    \E caller \in Accounts, aggregator \in Aggregators, newFeeCollector \in Accounts,
       fail \in {"none", "collector", "set"} :
        /\ fail # "none" => caller = aggregator
        /\ CommitAgg(SetFeeCollector(
               AggCtx("SetFeeCollector", caller, aggregator, newFeeCollector, l1, fail)))

CallSetDefaultAggregator ==
    \E newDefault \in Aggregators :
        CommitAgg(SetDefaultAggregator(
            AggCtx("SetDefaultAggregator", "a3", NoAggregator, newDefault, l1, "none")))

CallSetPreferredAggregator ==
    \E caller \in Accounts :
        CommitAgg(SetPreferredAggregator(
            AggCtx("SetPreferredAggregator", caller, NoAggregator, "a2", l1, "none")))

CallSetTxBaseFee ==
    \E aggregator \in Aggregators, feeInL1Gas \in Fees :
        CommitAgg(SetTxBaseFee(
            AggCtx("SetTxBaseFee", "a3", aggregator, feeInL1Gas, l1, "none")))

NextAgg ==
    \/ CallGetFeeCollector
    \/ CallGetDefaultAggregator
    \/ CallGetPreferredAggregator
    \/ CallGetTxBaseFee
    \/ CallSetFeeCollector
    \/ CallSetDefaultAggregator
    \/ CallSetPreferredAggregator
    \/ CallSetTxBaseFee

Next ==
    \/ \E t \in BlockTimes : AdvanceTime(t)
    \/ CallCancel
    \/ CallGetBeneficiary
    \/ CallGetLifetime
    \/ CallGetTimeout
    \/ CallKeepalive
    \/ CallRedeem

\* The ticket precompile, and the registry precompile.
Spec == Init /\ [][Next]_vars
InitAgg == Init /\ tickets["t2"] = Absent
SpecAgg == InitAgg /\ [][NextAgg]_vars

\* The ticket precompile over the stores and the times at the edges: the
\* ticket t1 is created with a payload of 33 bytes or with an empty one, t2
\* never existed, and the clock starts at 0 or one lifetime and a second
\* before the largest uint64, where currentTime + RetryableLifetimeSeconds is
\* the largest sum that does not wrap.
StoredSizes == {0, 33}
LastWindow == U64Mod - 1 - RetryableLifetimeSeconds
EdgeTimes ==
    {0, RetryableLifetimeSeconds, RetryableLifetimeSeconds + 1, LastWindow, LastWindow + 1}

InitEdge ==
    /\ now \in {0, LastWindow}
    /\ \E size \in StoredSizes :
          tickets = [id \in TicketIds |->
                        IF id = "t1"
                        THEN [NewRetryable(id, now) EXCEPT !.size = size]
                        ELSE Absent]
    /\ scheduled = {}
    /\ canceled = {}
    /\ l1 = L1Init
    /\ last = Idle

NextEdge ==
    \/ \E t \in EdgeTimes : AdvanceTime(t)
    \/ CallCancel
    \/ CallGetBeneficiary
    \/ CallGetLifetime
    \/ CallGetTimeout
    \/ CallKeepalive
    \/ CallRedeem

SpecEdge == InitEdge /\ [][NextEdge]_vars

\* ------------------------------------------------------------ properties

TicketOps == {"Cancel", "GetBeneficiary", "GetTimeout", "Keepalive", "Redeem"}

\* No store access of the last call reported a failure.
NoStoreFailure == \A i \in DOMAIN last.trace : last.trace[i][1] # "fail"

\* The ticket the last call names, before the call and as the call left it.
Before == last.pre[last.id]
After == last.store[last.id]

\* A query made right after the last call, by any account with ample gas.
Query(op, caller) == Ctx(op, caller, last.id, AmpleGas, now, tickets, "none")

C2_RedeemFrame ==
    last.op = "Redeem" =>
        /\ \A id \in TicketIds \ {last.id} : last.store[id] = last.pre[id]
        /\ (Before = Absent) <=> (After = Absent)
        /\ Before # Absent =>
              /\ After.timeout = Before.timeout
              /\ After.beneficiary = Before.beneficiary
              /\ After.size = Before.size
        /\ last.err = Nil =>
              /\ Before # Absent
              /\ After.numTries = Before.numTries + 1
              /\ Len(last.events) = 1
              /\ last.events[1][1] = "RedeemScheduled"
              /\ last.events[1][2] = last.id
              /\ last.events[1][4] = Before.numTries + 1

\* A second Redeem of a ticket succeeded while the other ticket is in the store.
C2_Witness ==
    /\ last.op = "Redeem"
    /\ last.err = Nil
    /\ Before.numTries = 1
    /\ \E id \in TicketIds \ {last.id} : last.pre[id] # Absent

\* C3: Cancel of an existing, unexpired ticket by a caller that is not its
\* beneficiary fails, with the authorization error when the store reports no
\* failure; it emits no event and leaves the ticket in the store with every
\* field unchanged, so that GetBeneficiary and GetTimeout still succeed on it.
C3_CancelByOther ==
    (/\ last.op = "Cancel"
     /\ Present(last.pre, last.id, last.time)
     /\ last.caller # Before.beneficiary) =>
        /\ last.err # Nil
        /\ NoStoreFailure => last.err = NotBeneficiaryError
        /\ last.events = <<>>
        /\ last.store = last.pre
        /\ tickets = last.pre
        /\ \A caller \in Addrs :
              /\ GetBeneficiary(Query("GetBeneficiary", caller)).err = Nil
              /\ GetBeneficiary(Query("GetBeneficiary", caller)).ret
                    = <<Before.beneficiary>>
              /\ GetTimeout(Query("GetTimeout", caller)).err = Nil
              /\ GetTimeout(Query("GetTimeout", caller)).ret = <<Before.timeout>>

\* A caller that is not the beneficiary was refused.
C3_Witness ==
    /\ last.op = "Cancel"
    /\ Present(last.pre, last.id, last.time)
    /\ last.caller # Before.beneficiary
    /\ last.err = NotBeneficiaryError

\* The charge an operation burns before it looks the ticket up.
FixedCharge(op) ==
    CASE op = "GetBeneficiary" -> 2 * SloadGas
      [] op = "Keepalive" -> KeepaliveFixedCost
      [] op = "Redeem" -> RedeemFixedCost
      [] OTHER -> 0

\* C4 as claimed: every ticket operation called with a ticketId that is not
\* in the store or whose timeout has passed returns the not-found error (here
\* even granted that the store reports no failure), changes no ticket and
\* emits no event.
C4_AbsentIsNotFound ==
    (/\ last.op \in TicketOps
     /\ ~Present(last.pre, last.id, last.time)
     /\ NoStoreFailure) =>
        /\ last.err = NotFoundError
        /\ last.store = last.pre
        /\ last.events = <<>>

\* C4, amended: every ticket operation called with a ticketId that is not in
\* the store or whose timeout has passed fails, changes no ticket and emits
\* no event; it returns the out-of-gas error exactly when the caller's gas is
\* below the charge the operation burns before the lookup (GetBeneficiary,
\* Keepalive, Redeem), and otherwise the not-found error unless the store
\* reports a failure.
C4_AbsentFailsWithoutEffect ==
    (/\ last.op \in TicketOps
     /\ ~Present(last.pre, last.id, last.time)) =>
        /\ last.err \in {NotFoundError, ErrOutOfGas, StoreError}
        /\ (last.err = ErrOutOfGas) <=> (last.gas < FixedCharge(last.op))
        /\ (NoStoreFailure /\ last.gas >= FixedCharge(last.op))
              => last.err = NotFoundError
        /\ last.store = last.pre
        /\ tickets = last.pre
        /\ last.events = <<>>

\* A Redeem of an expired ticket and a Keepalive of a ticket that is not in
\* the store returned not-found.
C4_Witness ==
    /\ last.op \in {"Redeem", "Keepalive"}
    /\ last.err = NotFoundError
    /\ \/ last.op = "Redeem" /\ Before # Absent /\ Before.timeout < last.time
       \/ last.op = "Keepalive" /\ Before = Absent

\* The gas the burns of the last call removed, in order.
Burns ==
    LET b == SelectSeq(last.trace, LAMBDA e : e[1] = "burn")
    IN  [i \in DOMAIN b |-> b[i][2]]

\* C5: a successful Redeem burns the fixed cost plus the event cost, then
\* words(sizeBytes) * SLOAD, then all the gas that is left: the caller's gas
\* is zero when Redeem returns, and the gas the redeem-scheduled event carries
\* is exactly the amount the last burn removed.
C5_RedeemDonatesRemainingGas ==
    (last.op = "Redeem" /\ last.err = Nil) =>
        LET fixed == 5 * SloadGas + SstoreSetGas
                        + RedeemScheduledGasCost(last.id, last.id, 0, 0, last.caller)
            bySize == WordsForBytes(Before.size) * SloadGas
            rest == last.gas - fixed - bySize
        IN  /\ Burns = <<fixed, bySize, rest>>
            /\ rest >= 0
            /\ last.gasLeft = 0
            /\ last.events[1][5] = rest

\* A Redeem succeeded with gas left to donate.
C5_Witness ==
    /\ last.op = "Redeem"
    /\ last.err = Nil
    /\ last.events[1][5] > 0
    /\ last.gasLeft = 0

\* What C6 says of the Cancel call itself: called by the beneficiary on an
\* existing, unexpired ticket, with the store reporting no failure, it
\* succeeds, removes the ticket and emits one canceled event.
CancelByBeneficiary ==
    (/\ last.op = "Cancel"
     /\ Present(last.pre, last.id, last.time)
     /\ last.caller = Before.beneficiary
     /\ NoStoreFailure) =>
        /\ last.err = Nil
        /\ After = Absent
        /\ \A id \in TicketIds \ {last.id} : last.store[id] = last.pre[id]
        /\ last.events = << <<"Canceled", last.id>> >>
        /\ tickets[last.id] = Absent
        /\ last.id \in canceled

\* The last call is an operation on a ticket canceled before the call.
OnCanceled ==
    /\ last.op \in TicketOps
    /\ last.id \in canceled
    /\ Before = Absent

\* C6 as claimed: Cancel by the beneficiary succeeds, removes the ticket and
\* emits one canceled event, and from then on every operation on the ticket
\* returns not-found (here even granted that the store reports no failure).
C6_CanceledIsNotFound ==
    /\ CancelByBeneficiary
    /\ \A id \in canceled : tickets[id] = Absent
    /\ (OnCanceled /\ NoStoreFailure) => last.err = NotFoundError

\* C6, amended: Cancel by the beneficiary succeeds, removes the ticket and
\* emits one canceled event; from then on the ticket is never in the store
\* again, and every operation on it fails without changing a ticket or
\* emitting an event: with not-found, except that GetBeneficiary, Keepalive
\* and Redeem return out-of-gas when the caller's gas is below the charge they
\* burn before the lookup.
C6_CanceledStaysAbsent ==
    /\ CancelByBeneficiary
    /\ \A id \in canceled : tickets[id] = Absent
    /\ OnCanceled =>
          /\ last.err # Nil
          /\ NoStoreFailure =>
                last.err = IF last.gas < FixedCharge(last.op)
                           THEN ErrOutOfGas ELSE NotFoundError
          /\ last.store = last.pre
          /\ last.events = <<>>

\* After a ticket was canceled, a later block's Keepalive and Redeem, with gas,
\* did not find it.
C6_Witness ==
    /\ OnCanceled
    /\ last.op \in {"Keepalive", "Redeem"}
    /\ last.time > 0
    /\ last.gas = AmpleGas
    /\ last.err = NotFoundError

\* C7: the numTries of a ticket never decreases; a successful Redeem emits
\* the sequence number priorNumTries + 1 (1, then 2, from numTries = 0), which
\* is the ticket's new numTries, returns the redeemTxId that is the function
\* of (ticketId, sequenceNum) and that the event carries, and that redeemTxId
\* was never scheduled before.
C7_TriesAndSequence ==
    [][/\ \A id \in TicketIds :
             (tickets[id] # Absent /\ tickets'[id] # Absent)
                => tickets'[id].numTries >= tickets[id].numTries
       /\ (last'.op = "Redeem" /\ last'.err = Nil) =>
             LET id == last'.id
                 sequenceNum == tickets[id].numTries + 1
                 redeemTxId == TxIdForRedeemAttempt(id, sequenceNum)
             IN  /\ tickets'[id].numTries = sequenceNum
                 /\ last'.events[1][4] = sequenceNum
                 /\ last'.events[1][3] = redeemTxId
                 /\ last'.ret = <<redeemTxId>>
                 /\ redeemTxId \notin scheduled
                 /\ scheduled' = scheduled \cup {redeemTxId}
      ]_vars

\* The second successful Redeem of a ticket: sequence number 2, after 1.
C7_Witness ==
    /\ last.op = "Redeem"
    /\ last.err = Nil
    /\ Before.numTries = 1
    /\ last.events[1][4] = 2
    /\ {x \in scheduled : x[1] = last.id}
          = {TxIdForRedeemAttempt(last.id, 1), TxIdForRedeemAttempt(last.id, 2)}

\* The caller of the last SetFeeCollector call is the aggregator or was its
\* collector when the call was made.
MayReassign == last.caller \in {last.aggregator, last.pre.collector[last.aggregator]}

\* C8: the fee collector of an aggregator changes only in a SetFeeCollector
\* call for that aggregator made by the aggregator itself or by its collector
\* at the moment of the call; such a call succeeds (the store reporting no
\* failure) and GetFeeCollector then returns the new collector; the call of
\* any other caller, a former collector included, fails with the
\* non-authorized error and leaves the registry unchanged.
C8_OnlyAggregatorOrCollector ==
    /\ [](last.op = "SetFeeCollector" =>
            /\ MayReassign =>
                  /\ last.err \in {Nil, StoreError}
                  /\ last.err = Nil =>
                        /\ l1 = [last.pre EXCEPT !.collector[last.aggregator] = last.arg]
                        /\ GetFeeCollector(AggCtx("GetFeeCollector", "a3",
                              last.aggregator, NoAggregator, l1, "none")).ret
                              = <<last.arg>>
            /\ ~MayReassign =>
                  /\ last.err = NotAuthorizedError
                  /\ last.l1 = last.pre
                  /\ l1 = last.pre)
    /\ [][\A a \in Aggregators :
             l1'.collector[a] # l1.collector[a] =>
                /\ last'.op = "SetFeeCollector"
                /\ last'.aggregator = a
                /\ last'.caller \in {a, l1.collector[a]}
                /\ last'.err = Nil
                /\ l1'.collector[a] = last'.arg
         ]_vars

\* The collector of an aggregator, not the aggregator itself, handed the
\* collection to a third account.
C8_Witness ==
    /\ last.op = "SetFeeCollector"
    /\ last.err = Nil
    /\ last.caller # last.aggregator
    /\ last.caller = last.pre.collector[last.aggregator]
    /\ last.arg \notin {last.caller, last.aggregator}
    /\ l1.collector[last.aggregator] = last.arg

\* The gas left before step i of the last call.
RECURSIVE GasBefore(_)
GasBefore(i) ==
    IF i <= 1 THEN last.gas
    ELSE GasBefore(i - 1)
            - (IF last.trace[i - 1][1] = "burn" THEN last.trace[i - 1][2] ELSE 0)

\* The steps of the last call that write the store or emit an event.
Effects == {i \in DOMAIN last.trace : last.trace[i][1] \in {"write", "emit"}}

\* C9: in GetBeneficiary, Keepalive and Redeem a burn fails exactly when it
\* exceeds the gas left; the operation then returns the out-of-gas error at
\* that point, having written no ticket and emitted no event; a burn that
\* follows a write or an event is of exactly the gas left, so it cannot fail.
C9_BurnsPrecedeEffects ==
    last.op \in {"GetBeneficiary", "Keepalive", "Redeem"} =>
        /\ \A i \in DOMAIN last.trace :
              /\ last.trace[i][1] = "burn" => last.trace[i][2] <= GasBefore(i)
              /\ last.trace[i][1] = "burnfail" =>
                    /\ last.trace[i][2] > GasBefore(i)
                    /\ i = Len(last.trace)
                    /\ last.err = ErrOutOfGas
              /\ last.trace[i][1] \in {"burn", "burnfail"} =>
                    ((\E j \in Effects : j < i) => last.trace[i][2] = GasBefore(i))
        /\ last.err = ErrOutOfGas =>
              /\ last.trace # <<>>
              /\ last.trace[Len(last.trace)][1] = "burnfail"
              /\ Effects = {}
              /\ last.store = last.pre
              /\ last.events = <<>>

\* A Keepalive and a Redeem ran out of gas at the size-proportional charge,
\* after the fixed charge and the size read.
C9_Witness ==
    /\ last.op \in {"Keepalive", "Redeem"}
    /\ last.err = ErrOutOfGas
    /\ Len(last.trace) = 3
    /\ last.trace[1][1] = "burn"
    /\ last.trace[3][1] = "burnfail"

\* C10: a Cancel, Keepalive or Redeem that returns an error has emitted no
\* event, and no ticket mutation of it takes effect.
C10_AllOrNothing ==
    (last.op \in {"Cancel", "Keepalive", "Redeem"} /\ last.err # Nil) =>
        /\ tickets = last.pre
        /\ last.events = <<>>

\* The storage accesses an operation charges in its first burn, and the gas
\* cost of the event an operation emits.
FixedStorageCharge(op) ==
    CASE op = "Keepalive" -> 6 * SloadGas + 2 * SstoreSetGas
      [] op = "Redeem" -> 5 * SloadGas + SstoreSetGas
      [] OTHER -> 0

EventCost(name, id, caller) ==
    CASE name = "Canceled" -> CanceledGasCost(id)
      [] name = "LifetimeExtended" -> LifetimeExtendedGasCost(id, 0)
      [] name = "RedeemScheduled" -> RedeemScheduledGasCost(id, id, 0, 0, caller)

\* The steps of the last call that emit an event.
Emissions == {i \in DOMAIN last.trace : last.trace[i][1] = "emit"}

\* What C11 says of one operation: before each event the operation emits,
\* the call has burned the cost of that event, as part of its first burn.
EventChargedBefore(op) ==
    last.op = op =>
        \A i \in Emissions :
            /\ i > 1
            /\ last.trace[1] = <<"burn", FixedStorageCharge(op)
                                    + EventCost(last.trace[i][2], last.id, last.caller)>>

\* C11: for every event a ticket operation emits (canceled by Cancel,
\* lifetime-extended by Keepalive, redeem-scheduled by Redeem) the gas cost of
\* the event was burned from the caller's gas earlier in the same call.
C11_EventCostBurnedFirst ==
    /\ EventChargedBefore("Cancel")
    /\ EventChargedBefore("Keepalive")
    /\ EventChargedBefore("Redeem")

\* The store access that reported a failure in the last call, if one did.
FailOf ==
    IF NoStoreFailure THEN "none"
    ELSE LET i == CHOOSE j \in DOMAIN last.trace : last.trace[j][1] = "fail"
         IN  last.trace[i][2]

\* The last call as `caller` would have made it: the same operation on the
\* same ticket, store, time and gas, with the same store access failing.
AsCalledBy(caller) ==
    LET c == Ctx(last.op, caller, last.id, last.gas, last.time, last.pre, FailOf)
    IN  CASE last.op = "Cancel" -> Cancel(c)
          [] last.op = "GetBeneficiary" -> GetBeneficiary(c)
          [] last.op = "GetLifetime" -> GetLifetime(c)
          [] last.op = "GetTimeout" -> GetTimeout(c)
          [] last.op = "Keepalive" -> Keepalive(c)
          [] last.op = "Redeem" -> Redeem(c)

\* Two event lists that differ at most in the caller field of their
\* redeem-scheduled events.
SameButCaller(e1, e2) ==
    /\ Len(e1) = Len(e2)
    /\ \A i \in DOMAIN e1 :
          \/ e1[i] = e2[i]
          \/ /\ e1[i][1] = "RedeemScheduled"
             /\ e2[i][1] = "RedeemScheduled"
             /\ SubSeq(e1[i], 1, 5) = SubSeq(e2[i], 1, 5)

KeepaliveOfExpired ==
    /\ last.op = "Keepalive"
    /\ Before # Absent
    /\ Before.timeout < last.time

\* A ticket that open does not find is not found after any step, and a
\* ticket that open finds is lost only to the clock passing its timeout or
\* to a successful Cancel of it by its beneficiary.
AbsentForGood ==
    \A id \in TicketIds :
        /\ ~Present(tickets, id, now) => ~Present(tickets', id, now')
        /\ (Present(tickets, id, now) /\ ~Present(tickets', id, now')) =>
              \/ /\ tickets' = tickets
                 /\ now' > tickets[id].timeout
              \/ /\ last'.op = "Cancel"
                 /\ last'.id = id
                 /\ last'.err = Nil
                 /\ last'.caller = tickets[id].beneficiary
                 /\ tickets'[id] = Absent

\* C13 as claimed: once the time has passed a ticket's timeout the ticket
\* stays absent whatever is called, a Keepalive of it returns not-found (here
\* even granted that the store reports no failure) and does not renew it,
\* and a ticket's life ends only by a successful Cancel or by expiry.
C13_ExpiredKeepaliveNotFound ==
    /\ []((KeepaliveOfExpired /\ NoStoreFailure) =>
            /\ last.err = NotFoundError
            /\ last.store = last.pre
            /\ tickets = last.pre)
    /\ [][AbsentForGood]_vars

\* C13, amended: once the time has passed a ticket's timeout the ticket
\* stays absent whatever is called; a Keepalive of it fails before the renew,
\* changes no ticket and emits no event, returning out-of-gas when the
\* caller's gas is below the fixed charge, the store's failure when the size
\* read fails and not-found otherwise; a ticket's life ends only by a
\* successful Cancel or by expiry.
C13_ExpiredStaysAbsent ==
    /\ [](KeepaliveOfExpired =>
            /\ last.err = IF last.gas < KeepaliveFixedCost THEN ErrOutOfGas
                          ELSE IF NoStoreFailure THEN NotFoundError
                          ELSE StoreError
            /\ \A i \in DOMAIN last.trace :
                  last.trace[i][1] \in {"write", "fail"} => last.trace[i][2] = "size"
            /\ last.store = last.pre
            /\ last.events = <<>>
            /\ tickets = last.pre)
    /\ [][AbsentForGood]_vars

\* A Keepalive with ample gas did not find a ticket whose timeout had passed,
\* and the ticket kept that timeout.
C13_Witness ==
    /\ KeepaliveOfExpired
    /\ last.gas = AmpleGas
    /\ last.err = NotFoundError
    /\ tickets[last.id].timeout = Before.timeout
    /\ tickets[last.id].timeout < now

\* The amounts of the burns the last call asked for, failed ones included.
Charges ==
    LET b == SelectSeq(last.trace, LAMBDA e : e[1] \in {"burn", "burnfail"})
    IN  [i \in DOMAIN b |-> b[i][2]]

\* C14: a successful Keepalive burns 6*SLOAD + 2*SSTORE-set + eventCost,
\* then, once the size is read, (ceil(sizeBytes / 32) * SSTORE-set) / 100,
\* and only then renews; a Keepalive of a ticket that is absent or expired
\* asks for the first, fixed burn only, never for the second.
C14_KeepaliveBurns ==
    last.op = "Keepalive" =>
        LET fixed == 6 * SloadGas + 2 * SstoreSetGas + LifetimeExtendedGasCost(last.id, 0)
        IN  /\ last.err = Nil =>
                  LET bySize == (((Before.size + 31) \div 32) * SstoreSetGas) \div 100
                  IN  /\ Burns = <<fixed, bySize>>
                      /\ Charges = Burns
                      /\ last.gasLeft = last.gas - fixed - bySize
                      /\ last.trace[1] = <<"burn", fixed>>
                      /\ last.trace[3] = <<"burn", bySize>>
                      /\ last.trace[4][1] = "write"
                      /\ \A i \in 1..3 : last.trace[i][1] # "write"
            /\ ~Present(last.pre, last.id, last.time) =>
                  /\ Charges = <<fixed>>
                  /\ Burns \in {<<>>, <<fixed>>}
                  /\ Burns = <<fixed>> => last.gasLeft = last.gas - fixed

\* A Keepalive of the 33-byte ticket burned the fixed charge and then the
\* charge of two words.
C14_Witness ==
    /\ last.op = "Keepalive"
    /\ last.err = Nil
    /\ Before.size = 33
    /\ Burns[1] = KeepaliveFixedCost
    /\ Burns[2] = 400

\* The last call as it would have gone with `gas` in the caller's hands.
WithGas(gas) ==
    LET c == Ctx(last.op, last.caller, last.id, gas, last.time, last.pre, FailOf)
    IN  CASE last.op = "Cancel" -> Cancel(c)
          [] last.op = "GetTimeout" -> GetTimeout(c)
          [] last.op = "GetLifetime" -> GetLifetime(c)

\* C15: Cancel, GetTimeout and GetLifetime ask for no burn: the caller's gas
\* is the same after the call as before it, on success and on every error
\* path, no call of them returns out-of-gas, and a call with zero gas goes as
\* the call with ample gas does; GetLifetime always succeeds, returns
\* RetryableLifetimeSeconds and neither reads nor writes the store.
C15_NoBurn ==
    /\ last.op \in {"Cancel", "GetTimeout", "GetLifetime"} =>
          /\ Charges = <<>>
          /\ last.gasLeft = last.gas
          /\ last.err # ErrOutOfGas
          /\ \A gas \in {0, AmpleGas} :
                /\ WithGas(gas).err = last.err
                /\ WithGas(gas).ret = last.ret
                /\ WithGas(gas).store = last.store
                /\ WithGas(gas).events = last.events
                /\ WithGas(gas).gasLeft = gas
    /\ last.op = "GetLifetime" =>
          /\ last.err = Nil
          /\ last.ret = <<RetryableLifetimeSeconds>>
          /\ last.trace = <<>>
          /\ last.store = last.pre
          /\ last.events = <<>>
          /\ tickets = last.pre

\* A Cancel and a GetTimeout succeeded for a caller with no gas at all.
C15_Witness ==
    /\ last.op \in {"Cancel", "GetTimeout"}
    /\ last.gas = 0
    /\ last.err = Nil
    /\ last.gasLeft = 0
    /\ last.trace # <<>>

\* C16: SetPreferredAggregator(prefAgg) called by a sender writes that
\* sender's preferred aggregator and nothing else of the registry: not the
\* preferred aggregator of another sender, the default aggregator, a fee
\* collector or a fixed charge; and the preferred aggregator of a sender
\* changes in no call but a SetPreferredAggregator of that sender.
C16_OnlyOwnPreference ==
    /\ [](last.op = "SetPreferredAggregator" =>
            /\ last.err = Nil
            /\ last.l1 = [last.pre EXCEPT !.preferred[last.caller] = last.arg]
            /\ l1 = last.l1)
    /\ [][\A a \in Accounts :
             l1'.preferred[a] # l1.preferred[a] =>
                /\ last'.op = "SetPreferredAggregator"
                /\ last'.caller = a
                /\ l1'.preferred[a] = last'.arg
         ]_vars

\* A sender chose its aggregator while another sender had none, in a
\* registry whose default aggregator and a fee collector had been changed.
C16_Witness ==
    /\ last.op = "SetPreferredAggregator"
    /\ last.pre.preferred[last.caller] = NoAggregator
    /\ l1.preferred[last.caller] = last.arg
    /\ \E a \in Accounts \ {last.caller} : l1.preferred[a] = NoAggregator
    /\ l1.default # L1Init.default
    /\ l1.collector # L1Init.collector

\* The steps of the last call that incremented numTries.
Increments == {i \in DOMAIN last.trace : last.trace[i][1] = "write"}

\* C17: a Redeem that has incremented numTries cannot fail: what follows the
\* increment is the event and one burn, of exactly the gas left, which
\* succeeds; so a Redeem that changed numTries or emitted redeem-scheduled
\* returned success, and a Redeem that returned an error did neither.
C17_NoFailureAfterIncrement ==
    last.op = "Redeem" =>
        LET n == Len(last.trace)
        IN  /\ \A i \in Increments :
                  /\ i = n - 2
                  /\ last.trace[n - 1][1] = "emit"
                  /\ last.trace[n][1] = "burn"
                  /\ last.trace[n][2] = GasBefore(n)
                  /\ last.err = Nil
            /\ (After # Before \/ last.events # <<>>) =>
                  /\ Increments # {}
                  /\ last.err = Nil
            /\ last.err # Nil =>
                  /\ last.store = last.pre
                  /\ last.events = <<>>
                  /\ tickets = last.pre

\* A Redeem incremented numTries, emitted its event and ended on the burn of
\* the gas that was left, and the increment took effect.
C17_Witness ==
    /\ last.op = "Redeem"
    /\ Before # Absent
    /\ Increments # {}
    /\ LET n == Len(last.trace)
       IN  /\ last.trace[n] = <<"burn", GasBefore(n)>>
           /\ GasBefore(n) > 0
    /\ After.numTries = Before.numTries + 1
    /\ tickets = last.store

\* Whether GetTimeout, and whether Keepalive, called with ample gas at the
\* time and on the ticket and the store of the last call, returns not-found.
GetTimeoutNotFound ==
    GetTimeout(Ctx("GetTimeout", last.caller, last.id, AmpleGas, last.time,
                   last.pre, "none")).err = NotFoundError
KeepaliveNotFound ==
    Keepalive(Ctx("Keepalive", last.caller, last.id, AmpleGas, last.time,
                  last.pre, "none")).err = NotFoundError

\* The last call is a Keepalive or a GetTimeout with ample gas in which no
\* store access failed.
PresenceCall ==
    /\ last.op \in {"Keepalive", "GetTimeout"}
    /\ last.gas = AmpleGas
    /\ NoStoreFailure

\* C18 as claimed: with enough gas, Keepalive returns not-found exactly when
\* GetTimeout returns not-found, for every store, ticket and time, a ticket
\* with a stored payload of 0 bytes included.
C18_SamePresence ==
    PresenceCall =>
        /\ (last.err = NotFoundError) <=>
              (IF last.op = "Keepalive" THEN GetTimeoutNotFound ELSE KeepaliveNotFound)
        /\ KeepaliveNotFound <=> GetTimeoutNotFound

\* C18, amended: with enough gas, Keepalive returns not-found exactly when
\* GetTimeout returns not-found or the ticket's stored payload is of 0 bytes:
\* for a ticket that is in the store, unexpired, with an empty payload,
\* Keepalive returns not-found from the size read while GetTimeout opens the
\* ticket and returns its timeout.
C18_SamePresenceUnlessEmpty ==
    PresenceCall =>
        LET empty == Present(last.pre, last.id, last.time) /\ Before.size = 0
        IN  /\ (last.err = NotFoundError) <=>
                  (IF last.op = "Keepalive" THEN GetTimeoutNotFound \/ empty
                   ELSE KeepaliveNotFound /\ ~empty)
            /\ KeepaliveNotFound <=> (GetTimeoutNotFound \/ empty)
            /\ empty => (KeepaliveNotFound /\ ~GetTimeoutNotFound)
            /\ GetTimeoutNotFound <=> ~Present(last.pre, last.id, last.time)

\* A Keepalive did not find an unexpired ticket with an empty payload, which
\* GetTimeout finds.
C18_Witness ==
    /\ last.op = "Keepalive"
    /\ PresenceCall
    /\ last.err = NotFoundError
    /\ Before # Absent
    /\ Before.size = 0
    /\ Before.timeout >= last.time
    /\ ~GetTimeoutNotFound

\* C19: a successful Keepalive leaves a timeout that is not before the one
\* the ticket had, nor before the time of the call; and whatever is called,
\* the timeout of a ticket that stays in the store does not decrease.
C19_TimeoutNeverShortened ==
    /\ (last.op = "Keepalive" /\ last.err = Nil) =>
          /\ After.timeout >= Before.timeout
          /\ After.timeout >= last.time
          /\ tickets[last.id].timeout = After.timeout
    /\ last.op \in TicketOps =>
          \A id \in TicketIds :
              (last.pre[id] # Absent /\ tickets[id] # Absent) =>
                  tickets[id].timeout >= last.pre[id].timeout

\* A Keepalive in the last second of a ticket's life gave it a later timeout.
C19_Witness ==
    /\ last.op = "Keepalive"
    /\ last.err = Nil
    /\ last.time = Before.timeout
    /\ After.timeout > Before.timeout
    /\ tickets[last.id].timeout = last.time + RetryableLifetimeSeconds

\* The renew step of the last call succeeded.
Renewed == \E i \in DOMAIN last.trace : last.trace[i] = <<"write", "renew">>

\* C20: whenever the renew step of a Keepalive succeeds, the new timeout
\* currentTime + RetryableLifetimeSeconds, as the uint64 addition gives it,
\* is not before currentTime, the re-open at currentTime finds the ticket,
\* and the read-back of the timeout does not dereference an absent ticket.
C20_ReadBackFindsTicket ==
    (last.op = "Keepalive" /\ Renewed) =>
        /\ After.timeout >= last.time
        /\ Present(last.store, last.id, last.time)
        /\ last.err # NilDereference

=============================================================================
